---------------------------- MODULE Spec2Model ----------------------------
(***************************************************************************)
(* Model of cleaned_inventory_system.py: the module-level inventory        *)
(* mapping stock_data, its operations add_item, remove_item, get_qty,      *)
(* check_low_items, the JSON persistence load_data / save_data, and the    *)
(* demo main().                                                            *)
(*                                                                         *)
(* Python values are records [t, n, s]: t is the Python type name, n the   *)
(* numeric value (int, bool, float) and s the text (str).  A dict is the   *)
(* sequence of its entries [k, v] in insertion order, keys unique.         *)
(***************************************************************************)
EXTENDS Integers, Sequences, FiniteSets

VARIABLES
    stock_data,   \* the module-level dict (line 19)
    file,         \* the inventory file on disk: [exists, doc]
    logs,         \* the caller's list after the last call, when that call
                  \* was add_item and was handed one; << >> otherwise
    op,           \* name of the last call made
    exc,          \* exception the last call raised, "None" if it returned
    emitted,      \* the logger record the last call emitted last ("" if none)
    ret           \* what the last call returned / printed

vars == <<stock_data, file, logs, op, exc, emitted, ret>>

\* Bound of the model: add_item is not called once it would take a stored
\* quantity above MaxQty (Python ints are unbounded).
MaxQty == 2

-----------------------------------------------------------------------------
(* Python values *)

PyInt(n)   == [t |-> "int",      n |-> n, s |-> ""]
PyBool(b)  == [t |-> "bool",     n |-> IF b THEN 1 ELSE 0, s |-> ""]
PyStr(s)   == [t |-> "str",      n |-> 0, s |-> s]
PyFloat(n) == [t |-> "float",    n |-> n, s |-> ""]
PyNone     == [t |-> "NoneType", n |-> 0, s |-> ""]
PyList     == [t |-> "list",     n |-> 0, s |-> ""]
PyDict     == [t |-> "dict",     n |-> 0, s |-> ""]

\* isinstance(x, int): bool is a subclass of int
isinstance_int(x) == x.t \in {"int", "bool"}

isinstance_str(x) == x.t = "str"

-----------------------------------------------------------------------------
(* dict operations *)

EmptyDict == << >>

dict_contains(d, k) == \E i \in DOMAIN d : d[i].k = k

dict_get(d, k, default) ==
    IF dict_contains(d, k)
    THEN d[CHOOSE i \in DOMAIN d : d[i].k = k].v
    ELSE default

dict_setitem(d, k, v) ==
    IF dict_contains(d, k)
    THEN [i \in DOMAIN d |-> IF d[i].k = k THEN [k |-> k, v |-> v] ELSE d[i]]
    ELSE Append(d, [k |-> k, v |-> v])

dict_delitem(d, k) == SelectSeq(d, LAMBDA e : e.k # k)

dict_keys(d) == {d[i].k : i \in DOMAIN d}

-----------------------------------------------------------------------------
(* add_item, remove_item, get_qty, check_low_items *)

\* "{datetime.now()}: Added {qty} of {item}" without the clock reading; an
\* f-string renders a bool qty as True, hence the type is kept
LogEntry(qty, item) == [added |-> qty.n, as |-> qty.t, of |-> item.s]

\* `not isinstance(item, str) or not item` (lines 36, 55, 78)
item_invalid_no_empty_check(item) == ~isinstance_str(item)

item_invalid(item) == ~isinstance_str(item) \/ item.s = ""

\* `not isinstance(qty, int)` (lines 38, 57)
qty_not_int(qty) == ~isinstance_int(qty)

\* `qty <= 0` (lines 40, 59)
qty_not_positive_allows_zero(qty) == qty.n < 0

qty_not_positive(qty) == qty.n <= 0

\* the three argument checks add_item and remove_item open with, in order
validate(item, qty) ==
    IF item_invalid(item) THEN "TypeError"
    ELSE IF qty_not_int(qty) THEN "TypeError"
    ELSE IF qty_not_positive(qty) THEN "ValueError"
    ELSE "None"

\* `prev + qty` (line 44): int + int/bool is an int
new_qty_overwrites(prev, qty) == PyInt(qty.n)

new_qty(prev, qty) == PyInt(prev.n + qty.n)

add_item(sd, item, qty, lg) ==
    LET v == validate(item, qty) IN
    IF v # "None"
    THEN [stock |-> sd, logs |-> lg, exc |-> v, emitted |-> ""]
    ELSE LET prev == dict_get(sd, item.s, PyInt(0)) IN
         [stock   |-> dict_setitem(sd, item.s, new_qty(prev, qty)),
          logs    |-> Append(lg, LogEntry(qty, item)),
          exc     |-> "None",
          emitted |-> "Added"]

\* `item not in stock_data` (line 62)
item_missing_never(sd, item) == FALSE

item_missing(sd, item) == ~dict_contains(sd, item.s)

\* `qty >= stock_data[item]` (line 65)
removes_entry_strict(qty, cur) == qty.n > cur.n

removes_entry(qty, cur) == qty.n >= cur.n

remove_item(sd, item, qty) ==
    LET v == validate(item, qty) IN
    IF v # "None"
    THEN [stock |-> sd, exc |-> v, emitted |-> ""]
    ELSE IF item_missing(sd, item)
    THEN [stock |-> sd, exc |-> "KeyError", emitted |-> ""]
    ELSE LET cur == dict_get(sd, item.s, PyInt(0)) IN
         IF removes_entry(qty, cur)
         THEN [stock   |-> dict_delitem(sd, item.s),
               exc     |-> "None",
               emitted |-> "Removing item"]
         ELSE [stock   |-> dict_setitem(sd, item.s, PyInt(cur.n - qty.n)),
               exc     |-> "None",
               emitted |-> "Decreased"]

get_qty(sd, item) ==
    IF item_invalid(item)
    THEN [stock |-> sd, ret |-> PyNone, exc |-> "TypeError"]
    ELSE [stock |-> sd, ret |-> dict_get(sd, item.s, PyInt(0)), exc |-> "None"]

\* `v < threshold` (line 138)
is_low_inclusive(v, threshold) == v.n <= threshold.n

is_low(v, threshold) == v.n < threshold.n

\* [k for k, v in stock_data.items() if v < threshold]: the keys in dict order
RECURSIVE low_keys(_, _)
low_keys(d, threshold) ==
    IF d = << >> THEN << >>
    ELSE IF is_low(Head(d).v, threshold)
         THEN <<Head(d).k>> \o low_keys(Tail(d), threshold)
         ELSE low_keys(Tail(d), threshold)

check_low_items(sd, threshold) ==
    IF ~isinstance_int(threshold)
    THEN [stock |-> sd, ret |-> << >>, exc |-> "TypeError"]
    ELSE [stock |-> sd, ret |-> low_keys(sd, threshold), exc |-> "None"]

-----------------------------------------------------------------------------
(* JSON text and the file *)

\* A JSON value inside an object: j is the kind of the token
JInt(n)    == [j |-> "int",    n |-> n, s |-> ""]
JReal(n)   == [j |-> "real",   n |-> n, s |-> ""]
JString(s) == [j |-> "string", n |-> 0, s |-> s]
JTrue      == [j |-> "true",   n |-> 0, s |-> ""]
JFalse     == [j |-> "false",  n |-> 0, s |-> ""]
JNull      == [j |-> "null",   n |-> 0, s |-> ""]
JArray     == [j |-> "array",  n |-> 0, s |-> ""]
JObject    == [j |-> "object", n |-> 0, s |-> ""]

\* A document: the top-level token and, for an object, its members in text
\* order (a JSON text may repeat a key).  "invalid" is text json cannot decode.
Doc(j, members) == [j |-> j, members |-> members]

InvalidText == Doc("invalid", << >>)

NoFile == [exists |-> FALSE, doc |-> InvalidText]

FileWith(doc) == [exists |-> TRUE, doc |-> doc]

\* json.dump of one dict value: an int as a number, a bool as true / false
json_encode_value(v) ==
    CASE v.t = "int"      -> JInt(v.n)
      [] v.t = "bool"     -> IF v.n = 1 THEN JTrue ELSE JFalse
      [] v.t = "float"    -> JReal(v.n)
      [] v.t = "str"      -> JString(v.s)
      [] v.t = "NoneType" -> JNull
      [] v.t = "list"     -> JArray
      [] v.t = "dict"     -> JObject

\* json.dump(stock_data, f, ensure_ascii=False, indent=2): one member per
\* entry, in dict order
json_dump_drops_last(d) ==
    Doc("object", [i \in 1 .. (Len(d) - 1) |->
                      [k |-> d[i].k, v |-> json_encode_value(d[i].v)]])

json_dump(d) ==
    Doc("object", [i \in DOMAIN d |->
                      [k |-> d[i].k, v |-> json_encode_value(d[i].v)]])

\* what json.load makes of one JSON value
json_decode_value(jv) ==
    CASE jv.j = "int"    -> PyInt(jv.n)
      [] jv.j = "real"   -> PyFloat(jv.n)
      [] jv.j = "string" -> PyStr(jv.s)
      [] jv.j = "true"   -> PyBool(TRUE)
      [] jv.j = "false"  -> PyBool(FALSE)
      [] jv.j = "null"   -> PyNone
      [] jv.j = "array"  -> PyList
      [] jv.j = "object" -> PyDict

\* the dict json.load builds from an object's members: a repeated key keeps its
\* first position and takes its last value; every key is a str
RECURSIVE json_object(_, _)
json_object(members, acc) ==
    IF members = << >> THEN acc
    ELSE json_object(Tail(members),
                     dict_setitem(acc, Head(members).k,
                                  json_decode_value(Head(members).v)))

\* json.load(f): [exc, t, items]; t is the type of the value, items the
\* entries when it is a dict
json_load(doc) ==
    IF doc.j = "invalid"
    THEN [exc |-> "JSONDecodeError", t |-> "NoneType", items |-> << >>]
    ELSE IF doc.j = "object"
    THEN [exc |-> "None", t |-> "dict", items |-> json_object(doc.members, << >>)]
    ELSE [exc |-> "None", t |-> json_decode_value([j |-> doc.j, n |-> 0, s |-> ""]).t,
          items |-> << >>]

-----------------------------------------------------------------------------
(* load_data, save_data *)

\* `not isinstance(k, str) or not isinstance(v, int)` (line 109); k is a str,
\* as every key json.load delivers is
entry_rejected_any_value(k, v) == ~isinstance_str(PyStr(k))

entry_rejected(k, v) == ~isinstance_str(PyStr(k)) \/ ~isinstance_int(v)

\* the loop of lines 107-111: the normalized dict, or the ValueError
RECURSIVE normalize(_, _)
normalize(items, normalized) ==
    IF items = << >> THEN [exc |-> "None", normalized |-> normalized]
    ELSE IF entry_rejected(Head(items).k, Head(items).v)
         THEN [exc |-> "ValueError", normalized |-> normalized]
         ELSE normalize(Tail(items),
                        dict_setitem(normalized, Head(items).k, Head(items).v))

\* lines 92-95: what stock_data becomes when the file does not exist
store_when_missing_keeps(sd) == sd

store_when_missing(sd) == EmptyDict

\* io is how the operating system answers path.open: "ok" or "open_fails"
load_data(sd, f, io) ==
    IF ~f.exists
    THEN [stock |-> store_when_missing(sd), exc |-> "None", emitted |-> "not found"]
    ELSE IF io # "ok"
    THEN [stock |-> sd, exc |-> "OSError", emitted |-> ""]
    ELSE LET data == json_load(f.doc) IN
         IF data.exc # "None"
         THEN [stock |-> sd, exc |-> "ValueError", emitted |-> "Failed to decode JSON"]
         ELSE IF data.t # "dict"
         THEN [stock |-> sd, exc |-> "ValueError", emitted |-> ""]
         ELSE LET r == normalize(data.items, EmptyDict) IN
              IF r.exc # "None"
              THEN [stock |-> sd, exc |-> "ValueError", emitted |-> ""]
              ELSE [stock |-> r.normalized, exc |-> "None", emitted |-> "Loaded"]

\* io: "ok", "open_fails" (the file is left as it was) or "write_fails" (opened
\* for writing, hence truncated, and the dump did not complete)
save_data(sd, f, io) ==
    CASE io = "ok" ->
           [stock |-> sd, file |-> FileWith(json_dump(sd)), exc |-> "None",
            emitted |-> "Saved"]
      [] io = "open_fails" ->
           [stock |-> sd, file |-> f, exc |-> "OSError", emitted |-> "Failed to save"]
      [] io = "write_fails" ->
           [stock |-> sd, file |-> FileWith(InvalidText), exc |-> "OSError",
            emitted |-> "Failed to save"]

-----------------------------------------------------------------------------
(* The calls a client makes, and their arguments *)

Items == {PyStr("apple"), PyStr("banana"), PyStr(""), PyNone}

Qtys == {PyInt(-1), PyInt(0), PyInt(1), PyInt(2), PyBool(TRUE), PyFloat(1)}

Thresholds == {PyInt(0), PyInt(2), PyInt(5), PyFloat(2)}

\* the logs argument: None (not given) or a list of the caller's
LogArgs ==
    {[given |-> FALSE, list |-> << >>],
     [given |-> TRUE,  list |-> <<LogEntry(PyInt(1), PyStr("pear"))>>]}

\* `if logs is None: logs = []` (lines 33-34)
logs_or_new(arg) == IF arg.given THEN arg.list ELSE << >>

\* threshold: int = 5 (line 135)
DefaultThreshold == 5

LoadIO == {"ok", "open_fails"}

SaveIO == {"ok", "open_fails", "write_fails"}

\* Files other programs leave at the path
FileSamples ==
    {InvalidText,
     Doc("array", << >>),
     Doc("int", << >>),
     Doc("object", << >>),
     Doc("object", <<[k |-> "a", v |-> JString("not a number")]>>),
     Doc("object", <<[k |-> "apple", v |-> JInt(1)], [k |-> "banana", v |-> JReal(2)]>>),
     Doc("object", <<[k |-> "apple", v |-> JNull]>>),
     Doc("object", <<[k |-> "apple", v |-> JTrue]>>),
     Doc("object", <<[k |-> "banana", v |-> JInt(-1)]>>),
     Doc("object", <<[k |-> "", v |-> JInt(0)]>>),
     Doc("object", <<[k |-> "apple", v |-> JInt(1)], [k |-> "banana", v |-> JInt(2)],
                     [k |-> "apple", v |-> JInt(2)]>>)}

NoRet == [qty |-> PyNone, names |-> << >>]

\* main() is the whole run of the script (lines 157-158): nothing follows it
Running == op # "main"

Init ==
    /\ stock_data = EmptyDict
    /\ file = NoFile
    /\ logs = << >>
    /\ op = "init"
    /\ exc = "None"
    /\ emitted = ""
    /\ ret = NoRet

Add ==
    /\ Running
    /\ \E item \in Items, qty \in Qtys, arg \in LogArgs :
          LET r == add_item(stock_data, item, qty, logs_or_new(arg)) IN
          /\ validate(item, qty) = "None" =>
                dict_get(stock_data, item.s, PyInt(0)).n + qty.n <= MaxQty
          /\ stock_data' = r.stock
          /\ logs' = IF arg.given THEN r.logs ELSE << >>
          /\ exc' = r.exc
          /\ emitted' = r.emitted
    /\ op' = "add_item"
    /\ ret' = NoRet
    /\ UNCHANGED file

Remove ==
    /\ Running
    /\ \E item \in Items, qty \in Qtys :
          LET r == remove_item(stock_data, item, qty) IN
          /\ stock_data' = r.stock
          /\ exc' = r.exc
          /\ emitted' = r.emitted
    /\ op' = "remove_item"
    /\ ret' = NoRet
    /\ logs' = << >>
    /\ UNCHANGED file

GetQty ==
    /\ Running
    /\ \E item \in Items :
          LET r == get_qty(stock_data, item) IN
          /\ stock_data' = r.stock
          /\ exc' = r.exc
          /\ ret' = [qty |-> r.ret, names |-> << >>]
    /\ op' = "get_qty"
    /\ emitted' = ""
    /\ logs' = << >>
    /\ UNCHANGED file

CheckLowItems ==
    /\ Running
    /\ \E threshold \in Thresholds :
          LET r == check_low_items(stock_data, threshold) IN
          /\ stock_data' = r.stock
          /\ exc' = r.exc
          /\ ret' = [qty |-> PyNone, names |-> r.ret]
    /\ op' = "check_low_items"
    /\ emitted' = ""
    /\ logs' = << >>
    /\ UNCHANGED file

Load ==
    /\ Running
    /\ \E io \in LoadIO :
          LET r == load_data(stock_data, file, io) IN
          /\ stock_data' = r.stock
          /\ exc' = r.exc
          /\ emitted' = r.emitted
    /\ op' = "load_data"
    /\ ret' = NoRet
    /\ logs' = << >>
    /\ UNCHANGED file

Save ==
    /\ Running
    /\ \E io \in SaveIO :
          LET r == save_data(stock_data, file, io) IN
          /\ stock_data' = r.stock
          /\ file' = r.file
          /\ exc' = r.exc
          /\ emitted' = r.emitted
    /\ op' = "save_data"
    /\ ret' = NoRet
    /\ logs' = << >>

\* main(), run on the freshly imported module.  Its arguments are valid and
\* the store starts empty, so only save_data can raise; the except clause
\* logs that and main returns normally.  print_data only writes to stdout.
Main ==
    /\ op = "init"
    /\ \E io \in SaveIO :
          LET a1 == add_item(stock_data, PyStr("apple"), PyInt(10), << >>)
              a2 == add_item(a1.stock, PyStr("banana"), PyInt(2), << >>)
              r3 == remove_item(a2.stock, PyStr("apple"), PyInt(3))
              g  == get_qty(r3.stock, PyStr("apple"))
              l  == check_low_items(r3.stock, PyInt(DefaultThreshold))
              s  == save_data(r3.stock, file, io)
          IN
          /\ stock_data' = s.stock
          /\ file' = s.file
          /\ ret' = [qty |-> g.ret, names |-> l.ret]
          /\ emitted' = IF s.exc = "None" THEN s.emitted
                        ELSE "Error during example run"
    /\ exc' = "None"
    /\ op' = "main"
    /\ logs' = << >>

\* Another program writes or deletes the file between two calls
WriteFile ==
    /\ Running
    /\ file' \in {NoFile} \cup {FileWith(d) : d \in FileSamples}
    /\ op' = "write_file"
    /\ exc' = "None"
    /\ emitted' = ""
    /\ ret' = NoRet
    /\ logs' = << >>
    /\ UNCHANGED stock_data

Next ==
    \/ Add
    \/ Remove
    \/ GetQty
    \/ CheckLowItems
    \/ Load
    \/ Save
    \/ Main
    \/ WriteFile

Spec == Init /\ [][Next]_vars

\* The module used as a library whose file nobody else touches
NextOwnFile ==
    \/ Add
    \/ Remove
    \/ GetQty
    \/ CheckLowItems
    \/ Load
    \/ Save

SpecOwnFile == Init /\ [][NextOwnFile]_vars

-----------------------------------------------------------------------------
(* Properties *)

Apple == PyStr("apple")

\* a valid call's arguments, as the contract words them: a non-empty string
\* and an integer > 0 (an integer as the source has it: a bool is an int)
ValidItem(item) == item.t = "str" /\ item.s # ""

ValidQty(qty) == qty.t \in {"int", "bool"} /\ qty.n > 0

\* every entry of d other than k's is in e with the same quantity, and e has
\* no key beyond d's and k
OthersUnchanged(d, e, k) ==
    /\ dict_keys(e) \ {k} = dict_keys(d) \ {k}
    /\ \A o \in dict_keys(d) \ {k} : dict_get(e, o, PyNone) = dict_get(d, o, PyNone)

\* C1: a valid add(item, qty) succeeds, after it get_quantity(item) is the
\* previous quantity (0 if absent) plus qty, and every other quantity is as
\* it was.
C1_AddAccumulates ==
    \A item \in Items, qty \in Qtys, arg \in LogArgs :
        (ValidItem(item) /\ ValidQty(qty)) =>
            LET r == add_item(stock_data, item, qty, logs_or_new(arg)) IN
            /\ r.exc = "None"
            /\ get_qty(r.stock, item).exc = "None"
            /\ get_qty(r.stock, item).ret.n = get_qty(stock_data, item).ret.n + qty.n
            /\ dict_contains(r.stock, item.s)
            /\ OthersUnchanged(stock_data, r.stock, item.s)

\* an add of 1 apple to a store that held 1 apple and a banana
C1_Witness ==
    /\ op = "add_item"
    /\ exc = "None"
    /\ logs = <<LogEntry(PyInt(1), PyStr("pear")), LogEntry(PyInt(1), Apple)>>
    /\ get_qty(stock_data, Apple).ret = PyInt(2)
    /\ dict_contains(stock_data, "banana")

\* C2: remove(item, qty) of a present item with quantity c, qty valid: when
\* qty >= c the entry is deleted and get_quantity(item) is 0, when qty < c
\* the entry stays with c - qty; every other entry is as it was.
C2_RemoveDeletesOrDecrements ==
    \A item \in Items, qty \in Qtys :
        (ValidItem(item) /\ ValidQty(qty) /\ dict_contains(stock_data, item.s)) =>
            LET c == dict_get(stock_data, item.s, PyNone)
                r == remove_item(stock_data, item, qty)
            IN
            /\ r.exc = "None"
            /\ qty.n >= c.n =>
                  /\ ~dict_contains(r.stock, item.s)
                  /\ get_qty(r.stock, item).ret = PyInt(0)
            /\ qty.n < c.n =>
                  /\ dict_contains(r.stock, item.s)
                  /\ dict_get(r.stock, item.s, PyNone) = PyInt(c.n - qty.n)
            /\ OthersUnchanged(stock_data, r.stock, item.s)
            /\ dict_keys(r.stock) \subseteq dict_keys(stock_data)

\* a removal that deleted the apples and left the bananas
C2_Witness ==
    /\ op = "remove_item"
    /\ exc = "None"
    /\ emitted = "Removing item"
    /\ ~dict_contains(stock_data, "apple")
    /\ dict_contains(stock_data, "banana")

\* C3: a valid remove of an absent item raises KeyError and leaves the store
\* as it was; get_quantity of an absent item returns 0, raises nothing and
\* creates no entry.
C3_AbsentItem ==
    \A item \in Items :
        (ValidItem(item) /\ ~dict_contains(stock_data, item.s)) =>
            /\ \A qty \in Qtys :
                  ValidQty(qty) =>
                      /\ remove_item(stock_data, item, qty).exc = "KeyError"
                      /\ remove_item(stock_data, item, qty).stock = stock_data
            /\ get_qty(stock_data, item).exc = "None"
            /\ get_qty(stock_data, item).ret = PyInt(0)
            /\ get_qty(stock_data, item).stock = stock_data

\* a remove that found its item missing while the store held another
C3_Witness ==
    /\ op = "remove_item"
    /\ exc = "KeyError"
    /\ stock_data # EmptyDict

\* C4: from the empty store, whatever add and remove calls are made, every
\* stored quantity is strictly positive.
C4_QuantitiesPositive ==
    \A i \in DOMAIN stock_data : stock_data[i].v.n > 0

\* a partial removal has just left one apple
C4_Witness ==
    /\ op = "remove_item"
    /\ emitted = "Decreased"
    /\ dict_get(stock_data, "apple", PyNone) = PyInt(1)

\* C5: add and remove raise TypeError or ValueError whenever item is not a
\* non-empty string or qty is not a strictly positive integer, the store is
\* then as it was and add has appended nothing to the caller's list; remove
\* does so whether or not the item is present.
C5_InvalidArgumentsRejected ==
    \A item \in Items, qty \in Qtys, arg \in LogArgs :
        (~ValidItem(item) \/ ~ValidQty(qty)) =>
            LET a == add_item(stock_data, item, qty, logs_or_new(arg))
                r == remove_item(stock_data, item, qty)
            IN
            /\ a.exc \in {"TypeError", "ValueError"}
            /\ a.stock = stock_data
            /\ a.logs = arg.list
            /\ r.exc \in {"TypeError", "ValueError"}
            /\ r.stock = stock_data

\* an add with a non-positive qty failed: the caller's list holds what it held
C5_Witness ==
    /\ op = "add_item"
    /\ exc = "ValueError"
    /\ logs = <<LogEntry(PyInt(1), PyStr("pear"))>>
    /\ stock_data # EmptyDict

\* C6: save_data does not change the store, and a load_data right after a
\* successful save_data leaves the store as it was saved.
C6_RoundTrip ==
    [][/\ op' = "save_data" => stock_data' = stock_data
       /\ (op = "save_data" /\ exc = "None" /\ op' = "load_data") =>
             /\ stock_data' = stock_data
             /\ exc' \in {"None", "OSError"}
             /\ exc' = "None" => emitted' = "Loaded"]_vars

\* a load has just read back a two-entry store from the file save wrote
C6_Witness ==
    /\ op = "load_data"
    /\ exc = "None"
    /\ emitted = "Loaded"
    /\ Len(stock_data) = 2
    /\ file = FileWith(json_dump(stock_data))

\* the mapping a JSON object denotes to json.load: each key with the value of
\* its last member
LastMember(members, i) ==
    \A j \in DOMAIN members : j > i => members[j].k # members[i].k

IsFileMapping(d, members) ==
    /\ dict_keys(d) = {members[i].k : i \in DOMAIN members}
    /\ Len(d) = Cardinality(dict_keys(d))
    /\ \A i \in DOMAIN members :
          LastMember(members, i) =>
              dict_get(d, members[i].k, PyNone) = json_decode_value(members[i].v)

\* C7: a load that succeeds leaves the store equal to the mapping in the
\* file, whatever the store held; when the file does not exist it succeeds
\* and leaves the empty store.
C7_LoadReplaces ==
    \A io \in LoadIO :
        LET r == load_data(stock_data, file, io) IN
        /\ ~file.exists => (r.exc = "None" /\ r.stock = EmptyDict)
        /\ (file.exists /\ r.exc = "None") =>
              IsFileMapping(r.stock, file.doc.members)

\* a load of a file that repeats a key has replaced the store
C7_Witness ==
    /\ op = "load_data"
    /\ exc = "None"
    /\ emitted = "Loaded"
    /\ Len(file.doc.members) = 3
    /\ stock_data = <<[k |-> "apple", v |-> PyInt(2)], [k |-> "banana", v |-> PyInt(2)]>>

\* C8: load of an existing file raises ValueError when the text is not JSON,
\* is JSON but not an object, or is an object with a value that is not an
\* integer (as the source has it: json's true / false arrive as bool, an
\* int); and whenever load raises, the store is as it was.
C8_LoadRejectsMalformed ==
    file.exists =>
        LET data == json_load(file.doc)
            r    == load_data(stock_data, file, "ok")
        IN
        /\ file.doc.j = "invalid" => r.exc = "ValueError"
        /\ file.doc.j \notin {"invalid", "object"} => r.exc = "ValueError"
        /\ (/\ file.doc.j = "object"
            /\ \E i \in DOMAIN data.items : data.items[i].v.t \notin {"int", "bool"})
              => r.exc = "ValueError"
        /\ \A io \in LoadIO :
              load_data(stock_data, file, io).exc # "None" =>
                  load_data(stock_data, file, io).stock = stock_data

\* a load of {"a": "not a number"} has failed and the store still holds entries
C8_Witness ==
    /\ op = "load_data"
    /\ exc = "ValueError"
    /\ file = FileWith(Doc("object", <<[k |-> "a", v |-> JString("not a number")]>>))
    /\ stock_data # EmptyDict

\* the elements of a sequence
Range(seq) == {seq[i] : i \in DOMAIN seq}

\* C9: for an integer threshold check_low_items returns exactly the names
\* whose quantity is < threshold, each once, and leaves the store as it was;
\* the demo run prints 7 for the apples and ["banana"] for the low items.
C9_LowStockExact ==
    /\ \A threshold \in Thresholds :
          threshold.t \in {"int", "bool"} =>
              LET r == check_low_items(stock_data, threshold) IN
              /\ r.exc = "None"
              /\ Range(r.ret) =
                    {k \in dict_keys(stock_data) :
                        dict_get(stock_data, k, PyNone).n < threshold.n}
              /\ Len(r.ret) = Cardinality(Range(r.ret))
              /\ r.stock = stock_data
    /\ op = "main" =>
          /\ ret.qty = PyInt(7)
          /\ ret.names = <<"banana">>

\* a scan has just reported the bananas, and only them, of a two-entry store
C9_Witness ==
    /\ op = "check_low_items"
    /\ exc = "None"
    /\ ret.names = <<"banana">>
    /\ dict_contains(stock_data, "apple")

\* C10: in every reachable state, loads included, every key is a non-empty
\* string and every stored quantity is an integer > 0.
C10_EntriesWellFormed ==
    \A i \in DOMAIN stock_data :
        /\ stock_data[i].k # ""
        /\ stock_data[i].v.t \in {"int", "bool"}
        /\ stock_data[i].v.n > 0

=============================================================================
